---- MODULE Spec2Model ----
(***************************************************************************)
(* A model of bikes.py (Toronto Bike Share): the station repository and    *)
(* its operations rent_bike, return_bike, balance_all_bikes and            *)
(* get_direction.                                                          *)
(*                                                                         *)
(* A station is the list [ID, NAME, LATITUDE, LONGITUDE, CAPACITY,         *)
(* BIKES_AVAILABLE, DOCKS_AVAILABLE, IS_RENTING, IS_RETURNING]; here it is *)
(* a record with one field per index.  Latitude and longitude are counted  *)
(* in units of 0.00001 degree, so that the nudge of get_direction          *)
(* (longitude_start + 0.00001) is +1.  Python's round() is round-half-to-  *)
(* even; the quotients it is applied to are computed exactly here (the     *)
(* float results agree with the exact ones for every station of fewer than *)
(* 25 and every repository of fewer than 40 bikes and docks).              *)
(***************************************************************************)
EXTENDS Integers, Sequences, FiniteSets, TLC

\* Bounds of the model.
MaxStations == 2
MaxSize == 2
MaxWide == 6
MaxCoord == 3

VARIABLES
    stations,     \* the repository: a sequence of station records
    initial,      \* bikes_available + docks_available of each station as constructed
    prev,         \* the repository before the last call
    op,           \* the last call: "init", "rent_bike", "return_bike", ...
    arg,          \* the station ids passed to the last call
    ret,          \* what the last call returned: "True", "False", "None" or a label
    raised,       \* TRUE iff the last call raised an exception
    pools         \* locals of the last balance_all_bikes: the pools and their history

vars == <<stations, initial, prev, op, arg, ret, raised, pools>>

Labels == {"WEST", "SOUTHWEST", "SOUTH", "SOUTHEAST", "EAST", "NORTHEAST",
           "NORTH", "NORTHWEST"}

NoPools == [excess_bikes |-> 0, deficit_bikes |-> 0, trace |-> <<>>]

----------------------------------------------------------------------------
\* Construction of a repository.

Names == <<"Ft. York / Capreol Crt.", "Lower Jarvis St / The Esplanade",
           "Danforth/Aldridge", "Danforth/Coxwell">>

MkStation(i, lat, lon, b, d, renting, returning) ==
    [id |-> 7000 + i, name |-> Names[i], latitude |-> lat, longitude |-> lon,
     capacity |-> b + d, bikes_available |-> b, docks_available |-> d,
     is_renting |-> renting, is_returning |-> returning]

Occupancy(size) ==
    {x \in [b : 0..size, d : 0..size, renting : BOOLEAN, returning : BOOLEAN] :
        x.b + x.d <= size}

Ids(st) == {st[i].id : i \in 1..Len(st)}

----------------------------------------------------------------------------
\* Python's round(n / d) for an exact quotient with d > 0: half to even.

Round(n, d) ==
    LET q == n \div d
        r == n % d
    IN  IF 2 * r < d THEN q
        ELSE IF 2 * r > d THEN q + 1
        ELSE IF q % 2 = 0 THEN q ELSE q + 1

----------------------------------------------------------------------------
\* rent_bike

\* rent_bike that takes the bike and forgets the dock it frees.
RentStationKeepsDocks(s, station_id) ==
    IF s.id = station_id /\ s.is_renting = TRUE /\ s.bikes_available > 0
    THEN [s EXCEPT !.bikes_available = @ - 1]
    ELSE s

\* rent_bike without the test of bikes_available.
RentStationUnchecked(s, station_id) ==
    IF s.id = station_id /\ s.is_renting = TRUE
    THEN [s EXCEPT !.bikes_available = @ - 1, !.docks_available = @ + 1]
    ELSE s

RentStation(s, station_id) ==
    IF s.id = station_id /\ s.is_renting = TRUE /\ s.bikes_available > 0
    THEN [s EXCEPT !.bikes_available = @ - 1, !.docks_available = @ + 1]
    ELSE s

RentResult(st, station_id) ==
    \E i \in 1..Len(st) : RentStation(st[i], station_id) # st[i]

RentBike ==
    \E station_id \in Ids(stations) :
        /\ stations' = [i \in 1..Len(stations) |-> RentStation(stations[i], station_id)]
        /\ ret' = IF RentResult(stations, station_id) THEN "True" ELSE "False"
        /\ prev' = stations
        /\ op' = "rent_bike"
        /\ arg' = <<station_id>>
        /\ raised' = FALSE
        /\ pools' = NoPools
        /\ UNCHANGED initial

----------------------------------------------------------------------------
\* return_bike

\* return_bike without the test of is_returning.
ReturnStationAnyFlag(s, station_id) ==
    IF s.id = station_id /\ s.docks_available > 0
    THEN [s EXCEPT !.bikes_available = @ + 1, !.docks_available = @ - 1]
    ELSE s

ReturnStation(s, station_id) ==
    IF s.id = station_id /\ s.is_returning = TRUE /\ s.docks_available > 0
    THEN [s EXCEPT !.bikes_available = @ + 1, !.docks_available = @ - 1]
    ELSE s

ReturnResult(st, station_id) ==
    \E i \in 1..Len(st) : ReturnStation(st[i], station_id) # st[i]

ReturnBike ==
    \E station_id \in Ids(stations) :
        /\ stations' = [i \in 1..Len(stations) |-> ReturnStation(stations[i], station_id)]
        /\ ret' = IF ReturnResult(stations, station_id) THEN "True" ELSE "False"
        /\ prev' = stations
        /\ op' = "return_bike"
        /\ arg' = <<station_id>>
        /\ raised' = FALSE
        /\ pools' = NoPools
        /\ UNCHANGED initial

----------------------------------------------------------------------------
\* balance_all_bikes

RECURSIVE OverallBikes(_)
OverallBikes(st) ==
    IF st = <<>> THEN 0 ELSE Head(st).bikes_available + OverallBikes(Tail(st))

RECURSIVE OverallSpaces(_)
OverallSpaces(st) ==
    IF st = <<>> THEN 0 ELSE Head(st).docks_available + OverallSpaces(Tail(st))

\* The divisions of lines 313 and 320 raise ZeroDivisionError when the
\* repository, or one station of it, has no bikes and no docks.  Both happen
\* before the first assignment to a station.
BalanceRaises(st) ==
    \/ OverallBikes(st) + OverallSpaces(st) = 0
    \/ \E i \in 1..Len(st) : st[i].bikes_available + st[i].docks_available = 0

\* The overall ratio without the factor 100.
OverallFraction(st) ==
    Round(OverallBikes(st), OverallBikes(st) + OverallSpaces(st))

OverallPercentage(st) ==
    Round(100 * OverallBikes(st), OverallBikes(st) + OverallSpaces(st))

StationAverage(s) ==
    Round(100 * s.bikes_available, s.bikes_available + s.docks_available)

\* number_remove cut off (int()) instead of rounded.
NumberRemoveTruncated(s, overall_percentage) ==
    (100 * s.bikes_available
       - overall_percentage * (s.bikes_available + s.docks_available)) \div 100

NumberRemove(s, overall_percentage) ==
    Round(100 * s.bikes_available
            - overall_percentage * (s.bikes_available + s.docks_available), 100)

\* number_add as the station's target, not its distance from the target.
NumberAddTarget(s, overall_percentage) ==
    Round(overall_percentage * (s.bikes_available + s.docks_available), 100)

NumberAdd(s, overall_percentage) ==
    Round(overall_percentage * (s.bikes_available + s.docks_available)
            - 100 * s.bikes_available, 100)

\* The first loop over the stations: the two pools.
RECURSIVE ExcessBikes(_, _)
ExcessBikes(st, overall_percentage) ==
    IF st = <<>> THEN 0
    ELSE (IF StationAverage(Head(st)) > overall_percentage
          THEN NumberRemove(Head(st), overall_percentage) ELSE 0)
         + ExcessBikes(Tail(st), overall_percentage)

RECURSIVE DeficitBikes(_, _)
DeficitBikes(st, overall_percentage) ==
    IF st = <<>> THEN 0
    ELSE (IF StationAverage(Head(st)) < overall_percentage
          THEN NumberAdd(Head(st), overall_percentage) ELSE 0)
         + DeficitBikes(Tail(st), overall_percentage)

\* One iteration of the second loop.
\* The removal without the test of is_renting.
RemovesAnyFlag(s, overall_percentage, excess_bikes) ==
    /\ StationAverage(s) > overall_percentage
    /\ excess_bikes > 0

Removes(s, overall_percentage, excess_bikes) ==
    /\ StationAverage(s) > overall_percentage
    /\ s.is_renting = TRUE
    /\ excess_bikes > 0

Adds(s, overall_percentage, deficit_bikes) ==
    /\ StationAverage(s) < overall_percentage
    /\ s.is_returning = TRUE
    /\ s.docks_available > 0
    /\ deficit_bikes > 0

\* The second loop from station i on.  trace[i] holds the pools as they are
\* when station i is processed.
RECURSIVE SecondLoop(_, _, _, _, _)
SecondLoop(st, i, overall_percentage, excess_bikes, deficit_bikes) ==
    IF i > Len(st)
    THEN [stations |-> st, excess_bikes |-> excess_bikes,
          deficit_bikes |-> deficit_bikes, trace |-> <<>>]
    ELSE
      LET s == st[i]
          number_remove == NumberRemove(s, overall_percentage)
          number_add == NumberAdd(s, overall_percentage)
          now == [excess_bikes |-> excess_bikes, deficit_bikes |-> deficit_bikes]
          rest ==
            IF Removes(s, overall_percentage, excess_bikes)
            THEN SecondLoop(
                   [st EXCEPT ![i] = [s EXCEPT
                        !.bikes_available = @ - number_remove,
                        !.docks_available = @ + number_remove]],
                   i + 1, overall_percentage,
                   excess_bikes - number_remove, deficit_bikes)
            ELSE IF Adds(s, overall_percentage, deficit_bikes)
            THEN SecondLoop(
                   [st EXCEPT ![i] = [s EXCEPT
                        !.bikes_available = @ + number_add,
                        !.docks_available = @ - number_add]],
                   i + 1, overall_percentage,
                   excess_bikes, deficit_bikes - number_add)
            ELSE SecondLoop(st, i + 1, overall_percentage,
                            excess_bikes, deficit_bikes)
      IN  [rest EXCEPT !.trace = <<now>> \o @]

Balanced(st) ==
    LET overall_percentage == OverallPercentage(st)
    IN  SecondLoop(st, 1, overall_percentage,
                   ExcessBikes(st, overall_percentage),
                   DeficitBikes(st, overall_percentage))

BalanceAllBikes ==
    /\ IF BalanceRaises(stations)
       THEN /\ raised' = TRUE
            /\ pools' = NoPools
            /\ UNCHANGED stations
       ELSE LET r == Balanced(stations)
            IN  /\ raised' = FALSE
                /\ stations' = r.stations
                /\ pools' = [excess_bikes |-> r.excess_bikes,
                             deficit_bikes |-> r.deficit_bikes,
                             trace |-> r.trace]
    /\ ret' = "None"
    /\ prev' = stations
    /\ op' = "balance_all_bikes"
    /\ arg' = <<>>
    /\ UNCHANGED initial

----------------------------------------------------------------------------
\* get_direction

\* 180 * atan2(a, b) / pi in hundredths of a degree, for 0 <= a, b <= 5 and
\* (a, b) # (0, 0): AtanTable[a + 1][b + 1].
AtanTable ==
    << <<0,    0,    0,    0,    0,    0>>,
       <<9000, 4500, 2657, 1843, 1404, 1131>>,
       <<9000, 6343, 4500, 3369, 2657, 2180>>,
       <<9000, 7157, 5631, 4500, 3687, 3096>>,
       <<9000, 7596, 6343, 5313, 4500, 3866>>,
       <<9000, 7869, 6820, 5904, 5134, 4500>> >>

Abs(x) == IF x < 0 THEN -x ELSE x

\* (180 * math.atan2(y, x)) / math.pi, in hundredths of a degree.
Degree(y, x) ==
    LET t == AtanTable[Abs(y) + 1][Abs(x) + 1]
    IN  IF x >= 0 /\ y >= 0 THEN t
        ELSE IF x < 0 /\ y >= 0 THEN 18000 - t
        ELSE IF x >= 0 THEN -t
        ELSE t - 18000

\* The chain of if / elif of lines 204-219; falling off its end returns None.
Bucket(degree) ==
    IF (degree > -2250 /\ degree < 0) \/ (degree < 2250 /\ degree > 0)
    THEN "WEST"
    ELSE IF degree >= 2250 /\ degree <= 6750 THEN "SOUTHWEST"
    ELSE IF degree > 6750 /\ degree < 11250 THEN "SOUTH"
    ELSE IF degree >= 11250 /\ degree <= 15750 THEN "SOUTHEAST"
    ELSE IF (degree > 15750 /\ degree < 18000) \/ (degree < -15750 /\ degree > -18000)
    THEN "EAST"
    ELSE IF degree >= -15750 /\ degree <= -11250 THEN "NORTHEAST"
    ELSE IF degree > -11250 /\ degree < -6750 THEN "NORTH"
    ELSE IF degree >= -6750 /\ degree >= -2250 THEN "NORTHWEST"
    ELSE "None"

\* The station the first loop takes the start (or the end) position from.
Lookup(st, station_id) == st[CHOOSE i \in 1..Len(st) : st[i].id = station_id]

DirectionDegree(st, start_id, end_id) ==
    LET latitude_start == Lookup(st, start_id).latitude
        longitude_start == Lookup(st, start_id).longitude
        latitude_end == Lookup(st, end_id).latitude
        longitude_end == Lookup(st, end_id).longitude
        nudged == IF longitude_start = longitude_end
                  THEN longitude_start + 1 ELSE longitude_start
    IN  Degree(latitude_start - latitude_end, nudged - longitude_end)

\* With start_id = end_id the elif branch never runs, and reading
\* longitude_end at line 198 raises UnboundLocalError.
GetDirection ==
    \E start_id \in Ids(stations), end_id \in Ids(stations) :
        /\ IF start_id = end_id
           THEN raised' = TRUE /\ ret' = "None"
           ELSE /\ raised' = FALSE
                /\ ret' = Bucket(DirectionDegree(stations, start_id, end_id))
        /\ prev' = stations
        /\ op' = "get_direction"
        /\ arg' = <<start_id, end_id>>
        /\ pools' = NoPools
        /\ UNCHANGED <<stations, initial>>

----------------------------------------------------------------------------
\* The specifications.

Fresh ==
    /\ initial = [i \in 1..Len(stations) |->
                    stations[i].bikes_available + stations[i].docks_available]
    /\ prev = stations
    /\ op = "init"
    /\ arg = <<>>
    /\ ret = "None"
    /\ raised = FALSE
    /\ pools = NoPools

\* Repositories of up to MaxStations stations of up to MaxSize bikes and docks.
Init ==
    /\ \E n \in 1..MaxStations :
         \E f \in [1..n -> Occupancy(MaxSize)] :
            stations = [i \in 1..n |->
                MkStation(i, i, i, f[i].b, f[i].d, f[i].renting, f[i].returning)]
    /\ Fresh

\* Repositories of two larger stations.
InitWide ==
    /\ \E f \in [1..2 -> Occupancy(MaxWide)] :
            stations = [i \in 1..2 |->
                MkStation(i, i, i, f[i].b, f[i].d, f[i].renting, f[i].returning)]
    /\ Fresh

\* Repositories of three stations of up to MaxSize bikes and docks.
InitThree ==
    /\ \E f \in [1..3 -> Occupancy(MaxSize)] :
            stations = [i \in 1..3 |->
                MkStation(i, i, i, f[i].b, f[i].d, f[i].renting, f[i].returning)]
    /\ Fresh

\* Repositories of two stations anywhere on a grid.
InitDir ==
    /\ \E f \in [1..2 -> [lat : 0..MaxCoord, lon : 0..MaxCoord]] :
            stations = [i \in 1..2 |->
                MkStation(i, f[i].lat, f[i].lon, i, i, TRUE, TRUE)]
    /\ Fresh

Next == RentBike \/ ReturnBike \/ BalanceAllBikes

NextDir == GetDirection

Spec == Init /\ [][Next]_vars

SpecWide == InitWide /\ [][Next]_vars

SpecThree == InitThree /\ [][Next]_vars

SpecDir == InitDir /\ [][NextDir]_vars

----------------------------------------------------------------------------
\* Helpers of the properties.

Total(s) == s.bikes_available + s.docks_available

IndexOf(st, station_id) == CHOOSE i \in 1..Len(st) : st[i].id = station_id

Balancing == op = "balance_all_bikes" /\ ~raised

\* Every field but the two counts.
SameIdentity(s, t) ==
    /\ s.id = t.id /\ s.name = t.name
    /\ s.latitude = t.latitude /\ s.longitude = t.longitude
    /\ s.capacity = t.capacity
    /\ s.is_renting = t.is_renting /\ s.is_returning = t.is_returning

Above(s, p) == StationAverage(s) > p
Below(s, p) == StationAverage(s) < p

\* The stations the claims call eligible for an adjustment.
Eligible(s, p) ==
    \/ Above(s, p) /\ s.is_renting
    \/ Below(s, p) /\ s.is_returning /\ s.docks_available > 0

\* Every station has the same occupancy ratio bikes / (bikes + docks).
SameRatio(st) ==
    \A i, j \in 1..Len(st) :
        /\ Total(st[i]) > 0
        /\ st[i].bikes_available * Total(st[j]) = st[j].bikes_available * Total(st[i])

----------------------------------------------------------------------------
\* C1: rent_bike(id) returns True iff the station had is_renting and
\* bikes_available > 0 before the call; on True that station has one bike
\* less and one dock more and nothing else changes; on False nothing changes.
RentContract ==
    op = "rent_bike" =>
        LET i == IndexOf(prev, arg[1])
        IN  /\ ret \in {"True", "False"}
            /\ ret = "True" <=> (prev[i].is_renting /\ prev[i].bikes_available > 0)
            /\ ret = "True" =>
                 stations = [prev EXCEPT ![i].bikes_available = @ - 1,
                                         ![i].docks_available = @ + 1]
            /\ ret = "False" => stations = prev

\* A rental that took the last bike of a station, in a repository of two
\* stations.
RentWitness ==
    /\ op = "rent_bike" /\ ret = "True" /\ Len(stations) = 2
    /\ stations[IndexOf(stations, arg[1])].bikes_available = 0

\* C2: return_bike(id) returns True iff the station had is_returning and
\* docks_available > 0 before the call; on True that station has one bike
\* more and one dock less and nothing else changes; on False nothing changes.
ReturnContract ==
    op = "return_bike" =>
        LET i == IndexOf(prev, arg[1])
        IN  /\ ret \in {"True", "False"}
            /\ ret = "True" <=> (prev[i].is_returning /\ prev[i].docks_available > 0)
            /\ ret = "True" =>
                 stations = [prev EXCEPT ![i].bikes_available = @ + 1,
                                         ![i].docks_available = @ - 1]
            /\ ret = "False" => stations = prev

\* A return refused by a station that has docks but does not take returns.
ReturnWitness ==
    /\ op = "return_bike" /\ ret = "False" /\ Len(stations) = 2
    /\ stations[IndexOf(stations, arg[1])].docks_available > 0

\* C3: after any sequence of calls every station's bikes_available +
\* docks_available is what it was in the initial repository.
TotalsConserved ==
    /\ Len(stations) = Len(initial)
    /\ \A i \in 1..Len(stations) : Total(stations[i]) = initial[i]

\* A balance that moved bikes at both stations of a repository.
TotalsWitness ==
    /\ Balancing /\ Len(stations) = 2
    /\ stations[1].bikes_available # prev[1].bikes_available
    /\ stations[2].bikes_available # prev[2].bikes_available

\* C4: bikes_available and docks_available never become negative.
CountsNonNegative ==
    \A i \in 1..Len(stations) :
        stations[i].bikes_available >= 0 /\ stations[i].docks_available >= 0

\* A balance that took the last bike of one station and put bikes into the
\* docks of another.
CountsWitness ==
    /\ Balancing
    /\ \E i, j \in 1..Len(stations) :
        /\ prev[i].bikes_available > 0 /\ stations[i].bikes_available = 0
        /\ stations[j].docks_available < prev[j].docks_available

\* C5: one balance_all_bikes changes the total of bikes_available by at most
\* the number of stations.
BalanceKeepsBikes ==
    Balancing =>
        /\ OverallBikes(stations) - OverallBikes(prev) <= Len(stations)
        /\ OverallBikes(prev) - OverallBikes(stations) <= Len(stations)

\* C6: for distinct ids get_direction returns one of the eight labels, and
\* NORTHWEST for every bearing d with -67.5 <= d < -22.5.
DirectionIsLabel ==
    (op = "get_direction" /\ arg[1] # arg[2]) =>
        LET degree == DirectionDegree(stations, arg[1], arg[2])
        IN  /\ ret \in Labels
            /\ (degree >= -6750 /\ degree < -2250) => ret = "NORTHWEST"

\* C7: balance_all_bikes never raises on a repository of non-negative counts.
BalanceNeverRaises == op = "balance_all_bikes" => ~raised

\* C8: when every station has the same occupancy ratio, balance_all_bikes
\* completes, leaves both pools at zero and changes no station.
BalancedIsFixed ==
    (op = "balance_all_bikes" /\ SameRatio(prev)) =>
        /\ ~raised
        /\ stations = prev
        /\ pools.excess_bikes = 0 /\ pools.deficit_bikes = 0
        /\ \A i \in 1..Len(pools.trace) :
              pools.trace[i].excess_bikes = 0 /\ pools.trace[i].deficit_bikes = 0

\* A balance of two stations of different sizes and the same ratio, neither
\* empty nor full.
BalancedWitness ==
    /\ op = "balance_all_bikes" /\ SameRatio(prev)
    /\ Total(prev[1]) # Total(prev[2])
    /\ prev[1].bikes_available > 0 /\ prev[1].docks_available > 0

\* C9: after balance_all_bikes every station that was above the target and
\* renting, or below it, returning and with a free dock, holds within 1/2 of
\* targetPct / 100 * (bikes + docks) bikes; the pools are never negative, and
\* never empty when such a station with a non-zero adjustment is processed.
BalanceReachesTarget ==
    Balancing =>
        LET p == OverallPercentage(prev)
            n == Len(prev)
        IN  /\ Len(pools.trace) = n
            /\ pools.excess_bikes >= 0 /\ pools.deficit_bikes >= 0
            /\ \A i \in 1..n :
                /\ pools.trace[i].excess_bikes >= 0
                /\ pools.trace[i].deficit_bikes >= 0
                /\ Eligible(prev[i], p) =>
                     /\ 100 * stations[i].bikes_available - p * Total(prev[i]) <= 50
                     /\ p * Total(prev[i]) - 100 * stations[i].bikes_available <= 50
                /\ (Above(prev[i], p) /\ prev[i].is_renting
                        /\ NumberRemove(prev[i], p) # 0) =>
                     pools.trace[i].excess_bikes > 0
                /\ (Below(prev[i], p) /\ prev[i].is_returning
                        /\ prev[i].docks_available > 0 /\ NumberAdd(prev[i], p) # 0) =>
                     pools.trace[i].deficit_bikes > 0

\* A balance in which the last station gave bikes after an earlier station
\* had drawn on the same pool.
TargetWitness ==
    /\ Balancing /\ Len(prev) >= 2
    /\ LET p == OverallPercentage(prev)
           n == Len(prev)
       IN  /\ Above(prev[n], p) /\ prev[n].is_renting
           /\ stations[n].bikes_available < prev[n].bikes_available
           /\ pools.trace[n].excess_bikes < pools.trace[1].excess_bikes

\* C10: balance_all_bikes leaves the counts of every station that is at the
\* target, above it and not renting, or below it and not returning or
\* without a free dock; and it leaves every other field and the order of
\* all stations.
BalanceFrame ==
    op = "balance_all_bikes" =>
        /\ Len(stations) = Len(prev)
        /\ \A i \in 1..Len(prev) :
            /\ SameIdentity(stations[i], prev[i])
            /\ (~raised /\ ~Eligible(prev[i], OverallPercentage(prev))) =>
                 stations[i] = prev[i]
            /\ raised => stations[i] = prev[i]

\* A balance that moved bikes at one station and left a station above the
\* target that does not rent.
FrameWitness ==
    /\ Balancing /\ stations # prev
    /\ \E i \in 1..Len(prev) :
        /\ Above(prev[i], OverallPercentage(prev))
        /\ ~prev[i].is_renting
        /\ stations[i] = prev[i]

====
